---- MODULE Spec2Model ----
(***************************************************************************)
(* Model of the trace-driven link scheduler of Topology/bent-pipe (1).py:  *)
(* the main script, NetworkConfigThread (trace load, nearest-sample        *)
(* selection, link configuration, update loop) and the self-rescheduling   *)
(* timer callback update_periodically.                                     *)
(*                                                                         *)
(* Time is a discrete clock `now` with TicksPerSecond units per second;    *)
(* trace keys are in the same unit, latencies are integer milliseconds.    *)
(* The program only uses differences of clock readings, so the clock is 0  *)
(* when run() captures start_time and advances freely from then on: every  *)
(* thread may be arbitrarily slow.                                         *)
(***************************************************************************)
EXTENDS Integers, Sequences, FiniteSets, TLC

\* ------------------------------------------------------------------ bounds
TicksPerSecond == 2
MaxTime == 22

\* ------------------------------------------------------- program constants
latency_update_interval == 1 * TicksPerSecond
max_updates == 10
DefaultDelay == 100
DefaultBw == 100
DefaultLoss == 0

Abs(x) == IF x < 0 THEN 0 - x ELSE x

\* ------------------------------------------------------------- trace files
\* A field of a CSV row is text; float() accepts it or raises ValueError.
Num(n) == [kind |-> "num", val |-> n]
Txt == [kind |-> "text", val |-> 0]

Failed == [ok |-> FALSE, val |-> <<>>]
Ok(v) == [ok |-> TRUE, val |-> v]

\* float(field)
ParseFloat(f) == IF f.kind = "num" THEN Ok(f.val) ELSE Failed

\* data[k] = v on a dict kept as a sequence of <<key, value>> in insertion
\* order: an existing key keeps its position and takes the new value.
DictSet(d, k, v) ==
    IF \E i \in 1..Len(d) : d[i][1] = k
    THEN [i \in 1..Len(d) |-> IF d[i][1] = k THEN <<k, v>> ELSE d[i]]
    ELSE Append(d, <<k, v>>)

RECURSIVE LoadRowsSkipping(_, _)
\* skip-and-continue: a row that cannot be read is dropped
LoadRowsSkipping(rows, data) ==
    IF rows = <<>> THEN Ok(data)
    ELSE LET row == Head(rows) IN
         IF Len(row) < 3 THEN LoadRowsSkipping(Tail(rows), data)
         ELSE LET v == ParseFloat(row[3])
                  k == ParseFloat(row[2])
              IN IF ~v.ok \/ ~k.ok THEN LoadRowsSkipping(Tail(rows), data)
                 ELSE LoadRowsSkipping(Tail(rows), DictSet(data, k.val, v.val))

RECURSIVE LoadRows(_, _)
\* for row in reader: data[float(row[1])] = float(row[2])   (row[i] is 0-based)
LoadRows(rows, data) ==
    IF rows = <<>> THEN Ok(data)
    ELSE LET row == Head(rows) IN
         IF Len(row) < 3 THEN Failed
         ELSE LET v == ParseFloat(row[3])
                  k == ParseFloat(row[2])
              IN IF ~v.ok \/ ~k.ok THEN Failed
                 ELSE LoadRows(Tail(rows), DictSet(data, k.val, v.val))

\* a load that reads the first line as a row
load_latency_trace_keep_first(file) ==
    IF file = <<>> THEN Failed
    ELSE LoadRows(file, <<>>)

\* load_latency_trace: next(reader) drops the first line, then every row is read
load_latency_trace(file) ==
    IF file = <<>> THEN Failed
    ELSE LoadRows(Tail(file), <<>>)

\* ---------------------------------------------------------------- selector
RECURSIVE MinScanLast(_, _, _, _)
\* a scan that keeps the last of several equally near keys
MinScanLast(T, e, i, best) ==
    IF i > Len(T) THEN best
    ELSE IF Abs(T[i][1] - e) <= Abs(T[best][1] - e)
         THEN MinScanLast(T, e, i + 1, i)
         ELSE MinScanLast(T, e, i + 1, best)

RECURSIVE MinScan(_, _, _, _)
\* min(keys, key=lambda t: abs(t - e)): the first minimal key in iteration order
MinScan(T, e, i, best) ==
    IF i > Len(T) THEN best
    ELSE IF Abs(T[i][1] - e) < Abs(T[best][1] - e)
         THEN MinScan(T, e, i + 1, i)
         ELSE MinScan(T, e, i + 1, best)

\* the round-trip value taken as the one-way delay
HalfIntNone(x) == x

\* int(x / 2): true division, then truncation toward zero
HalfInt(x) == IF x >= 0 THEN x \div 2 ELSE 0 - ((0 - x) \div 2)

\* get_closest_latency, for a non-empty trace (min() of no keys raises ValueError)
get_closest_latency(T, e) == HalfInt(T[MinScan(T, e, 2, 1)][2])

\* ------------------------------------------------------------------- input
TextHeader == <<Txt, Txt, Txt>>
RowA == <<Txt, Num(0), Num(100)>>
RowB == <<Txt, Num(2), Num(300)>>
RowC == <<Txt, Num(4), Num(50)>>
ShortRow == <<Txt, Num(1)>>
BadKeyRow == <<Txt, Txt, Num(100)>>
BadValRow == <<Num(1), Num(1), Txt>>
BlankRow == <<>>

GoodRows == {RowA, RowB}
BadRows == {ShortRow, BadKeyRow, BadValRow, BlankRow}

Malformed(row) ==
    \/ Len(row) < 3
    \/ row[2].kind # "num"
    \/ row[3].kind # "num"

SeqsUpTo(S, n) == UNION {[1..k -> S] : k \in 0..n}

MaxRows == 3

\* files that load: the scenario trace (0 s: 100, 1 s: 300, 2 s: 50) and a
\* header alone
GoodFiles ==
    { <<TextHeader, RowA, RowB, RowC>>,
      <<TextHeader>> }

\* files with at least one malformed row among valid ones, and the empty file
BadFiles ==
    { <<TextHeader>> \o rows : rows \in
         {r \in SeqsUpTo(GoodRows \cup BadRows, MaxRows) :
             \E i \in 1..Len(r) : Malformed(r[i])} }
    \cup { <<>> }

\* the command line: --latency absent, or --latency naming a file
NoFlag == [latency |-> FALSE, file |-> <<>>]
Args == {NoFlag} \cup {[latency |-> TRUE, file |-> f] : f \in GoodFiles \cup BadFiles}

\* the dev argument of NetworkConfigThread: __main__ passes "router-eth1";
\* "router-eth2" is a name that no interface of the router has
Devs == {"router-eth1", "router-eth2"}

\* ------------------------------------------------------------ link state
Intfs == {"user-eth0", "router-eth0", "router-eth1", "pop-eth0", "pop-eth1", "dst-eth0"}

\* intf.link for every interface created by net.addLink, as <<intf1, intf2>>
LinkOf(i) ==
    IF i \in {"user-eth0", "router-eth0"} THEN <<"user-eth0", "router-eth0">>
    ELSE IF i \in {"router-eth1", "pop-eth0"} THEN <<"router-eth1", "pop-eth0">>
    ELSE <<"pop-eth1", "dst-eth0">>

\* host.intfList() of host "router"
RouterIntfs == <<"router-eth0", "router-eth1">>

\* shaping of an interface; -1 stands for a parameter that is not set
Shape(bw, d, l) == [bw |-> bw, delay |-> d, loss |-> l]

\* the links made by net.addLink
BuiltIntfs ==
    [i \in Intfs |-> IF i \in {"router-eth1", "pop-eth0"}
                     THEN Shape(100, 100, 0)
                     ELSE Shape(1000, 0 - 1, 0 - 1)]

\* a config that adds the new delay to the one already on the interface
IntfConfigAdding(old, d, l) == Shape(0 - 1, old.delay + d, l)

\* intf.config(delay=.., loss=..): TCIntf.config drops the interface's qdiscs
\* and rebuilds them from the arguments of this call; no bw is passed.
IntfConfig(old, d, l) == Shape(0 - 1, d, l)

RECURSIVE ConfigScanAny(_, _, _, _, _)
\* a scan that does not compare the interface name with the device
ConfigScanAny(st, list, device, d, l) ==
    IF list = <<>> THEN st
    ELSE LET i == Head(list)
             a == LinkOf(i)[1]
             b == LinkOf(i)[2]
             sa == [st EXCEPT ![a] = IntfConfig(st[a], d, l)]
             st1 == [sa EXCEPT ![b] = IntfConfig(sa[b], d, l)]
         IN ConfigScanAny(st1, Tail(list), device, d, l)

RECURSIVE ConfigScanOneSided(_, _, _, _, _)
\* a scan that configures intf1 of the link only
ConfigScanOneSided(st, list, device, d, l) ==
    IF list = <<>> THEN st
    ELSE LET i == Head(list)
             a == LinkOf(i)[1]
             st1 == IF i = device
                    THEN [st EXCEPT ![a] = IntfConfig(st[a], d, l)]
                    ELSE st
         IN ConfigScanOneSided(st1, Tail(list), device, d, l)

RECURSIVE ConfigScan(_, _, _, _, _)
\* for intf in host.intfList(): if intf.link and str(intf) == self.dev: ...
ConfigScan(st, list, device, d, l) ==
    IF list = <<>> THEN st
    ELSE LET i == Head(list)
             a == LinkOf(i)[1]
             b == LinkOf(i)[2]
             st1 == IF i = device
                    THEN LET sa == [st EXCEPT ![a] = IntfConfig(st[a], d, l)]
                         IN [sa EXCEPT ![b] = IntfConfig(sa[b], d, l)]
                    ELSE st
         IN ConfigScan(st1, Tail(list), device, d, l)

\* configureStaticNetworkConditions(delay, bw, loss)
configureStaticNetworkConditions(st, device, d, bw, l) ==
    ConfigScan(st, RouterIntfs, device, d, l)

\* a counting signal: every set() adds a pending tick
EventSetCounted(e) == e + 1

\* a wait that returns without the flag (a wait with a timeout)
EventIsSetOrTimeout(e) == TRUE

\* threading.Event: set(), clear(), is_set() as tested by wait()
EventSet(e) == 1
EventClear(e) == 0
EventIsSet(e) == e > 0

\* ------------------------------------------------------------------- state
VARIABLES
    argv,        \* parsed command line
    dev,         \* NetworkConfigThread.dev
    mainPc,      \* position of the main script
    intf,        \* shaping of every interface of the emulated network
    latency,     \* NetworkConfigThread.latency, in insertion order
    start_time,  \* NetworkConfigThread.start_time
    loopPc,      \* position of the NetworkConfigThread thread
    updates,     \* local `updates` of configureNetworkConditions
    delay,       \* local `delay` of configureNetworkConditions
    update_event,\* the threading.Event flag
    queue,       \* events of the sched.scheduler: [time, base]
    trigPc,      \* position of the scheduler.run thread
    cb,          \* locals of the running update_periodically call
    now,         \* time.time()
    hist         \* history only: the Configurator calls made (how many of each
                 \* kind, the first, the last with the flag it found), the signals
                 \* since the loop's last clear (batch; 2 stands for two or more),
                 \* the signals that found none pending since that clear (groups),
                 \* the batch the last clear discarded (cleared), and the callbacks
                 \* called so far (cbs; 3 stands for three or more)

vars == <<argv, dev, mainPc, intf, latency, start_time, loopPc, updates, delay,
          update_event, queue, trigPc, cb, now, hist>>

NoCb == [base |-> 0, next_time |-> 0, sleep_time |-> 0]
NoCall == [kind |-> "none", delay |-> 0 - 1, bw |-> 0 - 1, loss |-> 0 - 1, flag |-> 0]

NoHist == [baseline |-> 0, dynamic |-> 0, first |-> NoCall, last |-> NoCall,
           batch |-> 0, groups |-> 0, cleared |-> 0,
           cbs |-> 0]

Init ==
    /\ argv \in Args
    /\ dev \in Devs
    /\ mainPc = "parse"
    /\ intf = [i \in Intfs |-> Shape(0 - 1, 0 - 1, 0 - 1)]
    /\ latency = <<>>
    /\ start_time = 0 - 1
    /\ loopPc = "new"
    /\ updates = 0
    /\ delay = 0 - 1
    /\ update_event = 0
    /\ queue = {}
    /\ trigPc = "new"
    /\ cb = NoCb
    /\ now = 0
    /\ hist = NoHist

\* a call of configureStaticNetworkConditions, as seen from outside
Called(h, kind, d, bw, l) ==
    LET c == [kind |-> kind, delay |-> d, bw |-> bw, loss |-> l, flag |-> update_event] IN
    [h EXCEPT ![kind] = @ + 1,
              !.first = IF h.baseline + h.dynamic = 0 THEN [c EXCEPT !.flag = 0] ELSE @,
              !.last = c]

\* -------------------------------------------------------------- main script
\* a main script that does not test args.latency
MainParseNoCheck ==
    /\ mainPc = "parse"
    /\ mainPc' = "build"
    /\ UNCHANGED <<argv, dev, intf, latency, start_time, loopPc, updates, delay,
                   update_event, queue, trigPc, cb, now, hist>>

\* lines 116-122: parse the command line; exit(1) without --latency
MainParse ==
    /\ mainPc = "parse"
    /\ mainPc' = IF ~argv.latency THEN "exit1" ELSE "build"
    /\ UNCHANGED <<argv, dev, intf, latency, start_time, loopPc, updates, delay,
                   update_event, queue, trigPc, cb, now, hist>>

\* lines 126-178: hosts, links, addresses
MainBuild ==
    /\ mainPc = "build"
    /\ intf' = BuiltIntfs
    /\ mainPc' = "construct"
    /\ UNCHANGED <<argv, dev, latency, start_time, loopPc, updates, delay,
                   update_event, queue, trigPc, cb, now, hist>>

\* line 197: NetworkConfigThread(...); an exception of the load ends the script
MainConstruct ==
    /\ mainPc = "construct"
    /\ LET r == load_latency_trace(argv.file) IN
         IF r.ok
         THEN /\ latency' = r.val
              /\ mainPc' = "start"
         ELSE /\ latency' = latency
              /\ mainPc' = "crashed"
    /\ UNCHANGED <<argv, dev, intf, start_time, loopPc, updates, delay,
                   update_event, queue, trigPc, cb, now, hist>>

\* line 198: net_thread.start(); line 201: the CLI
MainStart ==
    /\ mainPc = "start"
    /\ mainPc' = "cli"
    /\ loopPc' = "run"
    /\ UNCHANGED <<argv, dev, intf, latency, start_time, updates, delay,
                   update_event, queue, trigPc, cb, now, hist>>

\* ------------------------------------------------- NetworkConfigThread.run
\* line 94
RunStartTime ==
    /\ loopPc = "run"
    /\ start_time' = now
    /\ loopPc' = "enter"
    /\ UNCHANGED <<argv, dev, mainPc, intf, latency, updates, delay,
                   update_event, queue, trigPc, cb, now, hist>>

\* lines 95-98: scheduler.enter(latency_update_interval, ..., (start_time, step))
RunEnter ==
    /\ loopPc = "enter"
    /\ queue' = queue \cup {[time |-> now + latency_update_interval, base |-> start_time]}
    /\ loopPc' = "spawn"
    /\ UNCHANGED <<argv, dev, mainPc, intf, latency, start_time, updates, delay,
                   update_event, trigPc, cb, now, hist>>

\* line 99: the daemon thread running scheduler.run
RunSpawn ==
    /\ loopPc = "spawn"
    /\ trigPc' = "idle"
    /\ loopPc' = "baseline"
    /\ UNCHANGED <<argv, dev, mainPc, intf, latency, start_time, updates, delay,
                   update_event, queue, cb, now, hist>>

\* ------------------------------------------- configureNetworkConditions
\* the loop test off by one
LoopGuardInclusive(u) == u <= max_updates

\* line 78: while updates < max_updates
LoopGuard(u) == u < max_updates

\* the baseline call left out: the loop goes straight to waiting
BaselineSkipped ==
    /\ loopPc = "baseline"
    /\ updates' = 0
    /\ loopPc' = IF LoopGuard(0) THEN "wait" ELSE "done"
    /\ UNCHANGED <<argv, dev, mainPc, intf, latency, start_time, delay,
                   update_event, queue, trigPc, cb, now, hist>>

\* line 75: the baseline; lines 76-78: updates = 0 and the first loop test
Baseline ==
    /\ loopPc = "baseline"
    /\ intf' = configureStaticNetworkConditions(intf, dev, DefaultDelay, DefaultBw, DefaultLoss)
    /\ hist' = Called(hist, "baseline", DefaultDelay, DefaultBw, DefaultLoss)
    /\ updates' = 0
    /\ loopPc' = IF LoopGuard(0) THEN "wait" ELSE "done"
    /\ UNCHANGED <<argv, dev, mainPc, latency, start_time, delay,
                   update_event, queue, trigPc, cb, now>>

\* line 79: update_event.wait() returns once the flag is set
LoopWait ==
    /\ loopPc = "wait"
    /\ EventIsSet(update_event)
    /\ loopPc' = "select"
    /\ UNCHANGED <<argv, dev, mainPc, intf, latency, start_time, updates, delay,
                   update_event, queue, trigPc, cb, now, hist>>

\* a selector that looks the elapsed time up in the defaultdict: a key that is
\* missing is inserted with 0.0
LoopSelectInserting ==
    /\ loopPc = "select"
    /\ IF latency = <<>>
       THEN /\ loopPc' = "crashed"
            /\ delay' = delay
            /\ latency' = latency
       ELSE /\ delay' = get_closest_latency(latency, now - start_time)
            /\ latency' = IF \E i \in 1..Len(latency) : latency[i][1] = now - start_time
                          THEN latency
                          ELSE Append(latency, <<now - start_time, 0>>)
            /\ loopPc' = "apply"
    /\ UNCHANGED <<argv, dev, mainPc, intf, start_time, updates,
                   update_event, queue, trigPc, cb, now, hist>>

\* line 80: delay = self.get_closest_latency(); ValueError on an empty trace
LoopSelect ==
    /\ loopPc = "select"
    /\ IF latency = <<>>
       THEN /\ loopPc' = "crashed"
            /\ delay' = delay
       ELSE /\ delay' = get_closest_latency(latency, now - start_time)
            /\ loopPc' = "apply"
    /\ UNCHANGED <<argv, dev, mainPc, intf, latency, start_time, updates,
                   update_event, queue, trigPc, cb, now, hist>>

\* line 81
LoopApply ==
    /\ loopPc = "apply"
    /\ intf' = configureStaticNetworkConditions(intf, dev, delay, DefaultBw, DefaultLoss)
    /\ hist' = Called(hist, "dynamic", delay, DefaultBw, DefaultLoss)
    /\ loopPc' = "clear"
    /\ UNCHANGED <<argv, dev, mainPc, latency, start_time, updates, delay,
                   update_event, queue, trigPc, cb, now>>

\* line 82
LoopClear ==
    /\ loopPc = "clear"
    /\ update_event' = EventClear(update_event)
    /\ hist' = [hist EXCEPT !.batch = 0, !.cleared = hist.batch]
    /\ loopPc' = "incr"
    /\ UNCHANGED <<argv, dev, mainPc, intf, latency, start_time, updates, delay,
                   queue, trigPc, cb, now>>

\* line 83, and the loop test of line 78 (both on the local `updates` only)
LoopIncr ==
    /\ loopPc = "incr"
    /\ updates' = updates + 1
    /\ loopPc' = IF LoopGuard(updates + 1) THEN "wait" ELSE "done"
    /\ UNCHANGED <<argv, dev, mainPc, intf, latency, start_time, delay,
                   update_event, queue, trigPc, cb, now, hist>>

\* ------------------------------------ scheduler.run / update_periodically
\* an on-time test that takes a callback called exactly at its target as on time
OnTimeInclusive(sleep) == sleep >= 0

\* line 105: the on-time test
OnTime(sleep) == sleep > 0

\* a next target taken from the clock instead of the previous target
NextTimeFromNow(base, step) == now + step

\* line 103
NextTime(base, step) == base + step

\* scheduler.run calls the action of the event that is due; lines 103-105.
\* The clock reading of line 104 is the one that found the event due: a
\* later reading amounts to a later dispatch.
TrigCall ==
    /\ trigPc = "idle"
    /\ \E ev \in queue :
         /\ ev.time <= now
         /\ queue' = queue \ {ev}
         /\ LET nt == NextTime(ev.base, latency_update_interval)
                st == nt - now
            IN /\ cb' = [base |-> ev.base, next_time |-> nt, sleep_time |-> st]
               /\ trigPc' = IF OnTime(st) THEN "set" ELSE "late"
    /\ hist' = [hist EXCEPT !.cbs = IF @ < 3 THEN @ + 1 ELSE @]
    /\ UNCHANGED <<argv, dev, mainPc, intf, latency, start_time, loopPc, updates,
                   delay, update_event, now>>

\* line 106
TrigSet ==
    /\ trigPc = "set"
    /\ update_event' = EventSet(update_event)
    /\ hist' = [hist EXCEPT !.batch = IF @ < 2 THEN @ + 1 ELSE @,
                            !.groups = IF hist.batch = 0 THEN @ + 1 ELSE @]
    /\ trigPc' = "reenter"
    /\ UNCHANGED <<argv, dev, mainPc, intf, latency, start_time, loopPc, updates,
                   delay, queue, cb, now>>

\* an on-time callback that returns without entering its successor
TrigReturnOnTime ==
    /\ trigPc = "reenter"
    /\ cb' = NoCb
    /\ trigPc' = "idle"
    /\ UNCHANGED <<argv, dev, mainPc, intf, latency, start_time, loopPc, updates,
                   delay, update_event, queue, now, hist>>

\* lines 107-109: scheduler.enter(sleep_time, ..., (next_time, step))
TrigEnterOnTime ==
    /\ trigPc = "reenter"
    /\ queue' = queue \cup {[time |-> now + cb.sleep_time, base |-> cb.next_time]}
    /\ cb' = NoCb
    /\ trigPc' = "idle"
    /\ UNCHANGED <<argv, dev, mainPc, intf, latency, start_time, loopPc, updates,
                   delay, update_event, now, hist>>

\* a late callback that returns without entering its successor
TrigReturnLate ==
    /\ trigPc = "late"
    /\ cb' = NoCb
    /\ trigPc' = "idle"
    /\ UNCHANGED <<argv, dev, mainPc, intf, latency, start_time, loopPc, updates,
                   delay, update_event, queue, now, hist>>

\* lines 110-113: scheduler.enter(0, ..., (time.time(), step)); the branch has
\* no set(). The new event is due at once, so the reading that makes its base
\* and the one that makes its time are taken together.
TrigEnterLate ==
    /\ trigPc = "late"
    /\ queue' = queue \cup {[time |-> now + 0, base |-> now]}
    /\ cb' = NoCb
    /\ trigPc' = "idle"
    /\ UNCHANGED <<argv, dev, mainPc, intf, latency, start_time, loopPc, updates,
                   delay, update_event, now, hist>>

\* -------------------------------------------------------------------- time
\* the clock advances at any moment after start_time was read
Tick ==
    /\ loopPc \notin {"new", "run"}
    /\ now < MaxTime
    /\ now' = now + 1
    /\ UNCHANGED <<argv, dev, mainPc, intf, latency, start_time, loopPc, updates,
                   delay, update_event, queue, trigPc, cb, hist>>

Next ==
    \/ MainParse \/ MainBuild \/ MainConstruct \/ MainStart
    \/ RunStartTime \/ RunEnter \/ RunSpawn
    \/ Baseline \/ LoopWait \/ LoopSelect \/ LoopApply
    \/ LoopClear \/ LoopIncr
    \/ TrigCall \/ TrigSet \/ TrigEnterOnTime \/ TrigEnterLate
    \/ Tick

Spec == Init /\ [][Next]_vars

\* ------------------------------------ the configurator on bounded inputs
MaxApply == 3
CfgShapes == {Shape(100, 100, 0), Shape(0 - 1, 50, 0), Shape(0 - 1, 0, 5), Shape(1000, 0 - 1, 0 - 1)}
CfgDelays == {0, 50, DefaultDelay}
CfgBws == {DefaultBw, 10}
CfgLosses == {DefaultLoss, 5}

\* link states: what net.addLink made, with any shaping on the two interfaces
\* of the router-pop link (at the CLI the links can be shaped by hand)
CfgStates ==
    {[BuiltIntfs EXCEPT !["router-eth1"] = sa, !["pop-eth0"] = sb] :
        sa \in CfgShapes, sb \in CfgShapes}

\* a thread that is constructed and not started
CfgInit ==
    /\ argv = [latency |-> TRUE, file |-> <<TextHeader, RowA, RowB, RowC>>]
    /\ dev \in Devs
    /\ mainPc = "start"
    /\ intf \in CfgStates
    /\ latency = load_latency_trace(argv.file).val
    /\ start_time = 0 - 1
    /\ loopPc = "new"
    /\ updates = 0
    /\ delay = 0 - 1
    /\ update_event = 0
    /\ queue = {}
    /\ trigPc = "new"
    /\ cb = NoCb
    /\ now = 0
    /\ hist = NoHist

\* one call of configureStaticNetworkConditions(delay=d, bw=bw, loss=l)
ConfigureCall ==
    /\ hist.dynamic < MaxApply
    /\ \E d \in CfgDelays, bw \in CfgBws, l \in CfgLosses :
          /\ intf' = configureStaticNetworkConditions(intf, dev, d, bw, l)
          /\ hist' = Called(hist, "dynamic", d, bw, l)
    /\ UNCHANGED <<argv, dev, mainPc, latency, start_time, loopPc, updates, delay,
                   update_event, queue, trigPc, cb, now>>

CfgNext == ConfigureCall

SpecCfg == CfgInit /\ [][CfgNext]_vars

\* ------------------------------------------------- prompt, fair scheduling
MainStep == MainParse \/ MainBuild \/ MainConstruct \/ MainStart
LoopStep ==
    \/ RunStartTime \/ RunEnter \/ RunSpawn
    \/ Baseline \/ LoopWait \/ LoopSelect \/ LoopApply \/ LoopClear \/ LoopIncr
TrigStep == TrigCall \/ TrigSet \/ TrigEnterOnTime \/ TrigEnterLate

\* the loop thread has nothing to do: it is blocked in wait() or has ended
LoopBlocked ==
    \/ loopPc \in {"done", "crashed"}
    \/ loopPc = "wait" /\ ~EventIsSet(update_event)

\* The clock of a machine that is not overloaded: a thread that can take a
\* step takes it before the clock moves on, and sched dispatches an event
\* less than one interval after it is due. Time does not end: at MaxTime the
\* origin of the clock moves instead of `now` (start_time stays, which keeps
\* the elapsed time at or beyond the last key of the trace).
TickPrompt ==
    /\ loopPc \notin {"new", "run"}
    /\ LoopBlocked
    /\ trigPc = "idle"
    /\ \A ev \in queue : (now + 1) - ev.time < latency_update_interval
    /\ IF now < MaxTime
       THEN /\ now' = now + 1
            /\ queue' = queue
       ELSE /\ now' = now
            /\ queue' = {[time |-> ev.time - 1, base |-> ev.base - 1] : ev \in queue}
    /\ UNCHANGED <<argv, dev, mainPc, intf, latency, start_time, loopPc, updates,
                   delay, update_event, trigPc, cb, hist>>

LiveNext == MainStep \/ LoopStep \/ TrigStep \/ TickPrompt

LiveSpec ==
    /\ Init
    /\ [][LiveNext]_vars
    /\ WF_vars(MainStep)
    /\ WF_vars(LoopStep)
    /\ WF_vars(TrigStep)
    /\ WF_vars(TickPrompt)

\* ------------------------------------------- the selector on bounded inputs
MaxKey == 3
MaxLen == 3
MaxElapsed == 9
SelVals == {100, 300, 50, 0 - 7}

\* the scenario trace with keys in tenths of a second: 0.0, 1.0, 2.0
ScenarioTenths == << <<0, 100>>, <<10, 300>>, <<20, 50>> >>

\* every trace a file can load: distinct keys in any order
SelTraces ==
    {t \in UNION {[1..n -> (0..MaxKey) \X SelVals] : n \in 1..MaxLen} :
        \A i, j \in 1..Len(t) : t[i][1] = t[j][1] => i = j}
    \cup {ScenarioTenths}

\* the loop has observed a tick and is about to call get_closest_latency
SelInit ==
    /\ argv = [latency |-> TRUE, file |-> <<TextHeader>>]
    /\ dev = "router-eth1"
    /\ mainPc = "cli"
    /\ intf = configureStaticNetworkConditions(BuiltIntfs, "router-eth1",
                                                DefaultDelay, DefaultBw, DefaultLoss)
    /\ latency \in SelTraces
    /\ start_time = 0
    /\ loopPc = "select"
    /\ updates = 0
    /\ delay = 0 - 1
    /\ update_event = 1
    /\ queue = {[time |-> 2 * latency_update_interval, base |-> 2 * latency_update_interval]}
    /\ trigPc = "idle"
    /\ cb = NoCb
    /\ now \in 0..MaxElapsed
    /\ hist = [NoHist EXCEPT
                  !.baseline = 1,
                  !.first = [kind |-> "baseline", delay |-> DefaultDelay, bw |-> DefaultBw,
                             loss |-> DefaultLoss, flag |-> 0],
                  !.last = [kind |-> "baseline", delay |-> DefaultDelay, bw |-> DefaultBw,
                            loss |-> DefaultLoss, flag |-> 0],
                  !.batch = 1, !.groups = 1, !.cbs = 3]

SelNext == LoopSelect

SpecSel == SelInit /\ [][SelNext]_vars

\* --------------------------------------------- the load on bounded inputs
\* a first line that reads as a data row, and a row that repeats a key
NumHeader == <<Num(0), Num(3), Num(900)>>
RowD == <<Txt, Num(2), Num(0 - 7)>>

\* a first line of text, one that is numeric, and one that a later row may
\* repeat, before any rows
LoadFiles ==
    { <<h>> \o rows : h \in {TextHeader, NumHeader, RowB},
                      rows \in SeqsUpTo({RowA, RowB, RowC, RowD, ShortRow}, MaxRows) }

\* the script is about to construct the NetworkConfigThread
LoadInit ==
    /\ argv \in {[latency |-> TRUE, file |-> f] : f \in LoadFiles}
    /\ dev = "router-eth1"
    /\ mainPc = "construct"
    /\ intf = BuiltIntfs
    /\ latency = <<>>
    /\ start_time = 0 - 1
    /\ loopPc = "new"
    /\ updates = 0
    /\ delay = 0 - 1
    /\ update_event = 0
    /\ queue = {}
    /\ trigPc = "new"
    /\ cb = NoCb
    /\ now = 0
    /\ hist = NoHist

LoadNext == MainConstruct

SpecLoad == LoadInit /\ [][LoadNext]_vars

\* ================================================================== claims
Loop == {"wait", "select", "apply", "clear", "incr"}
Calls == hist.baseline + hist.dynamic
Resolved == \E i \in 1..Len(RouterIntfs) : RouterIntfs[i] = dev

\* C1: bounded termination. The loop makes one baseline call and then dynamic
\* calls; never more than max_updates of them; at TERMINAL it has made exactly
\* max_updates dynamic calls, and from TERMINAL on no Configurator call is made
\* and no link state changes, whatever the trigger does.
C1_BoundedTermination ==
    /\ [](/\ updates <= max_updates
          /\ hist.dynamic <= max_updates
          /\ hist.baseline <= 1
          /\ (hist.dynamic > 0 => hist.baseline = 1)
          /\ (loopPc = "done" => /\ updates = max_updates
                                 /\ hist.dynamic = max_updates
                                 /\ hist.baseline = 1))
    /\ [][loopPc = "done" => /\ loopPc' = "done"
                             /\ hist.baseline' = hist.baseline
                             /\ hist.dynamic' = hist.dynamic
                             /\ intf' = intf
                             /\ updates' = updates]_vars

\* the loop is TERMINAL and the trigger has signalled again since
C1_Witness ==
    /\ loopPc = "done"
    /\ hist.groups > max_updates
    /\ update_event = 1

\* C2: coalescing. The tick is one binary flag: at most one tick is pending;
\* the firings between two clears of the loop (a group), however many, start
\* exactly one update: the updates started never exceed the groups opened,
\* and a clear leaves no tick pending.
Started == hist.dynamic + (IF loopPc \in {"select", "apply"} THEN 1 ELSE 0)

C2_Coalescing ==
    /\ [](/\ update_event \in {0, 1}
          /\ Started <= hist.groups
          /\ hist.groups <= Started + 1)
    /\ [][loopPc = "clear" /\ loopPc' = "incr" => update_event' = 0]_vars

\* two or more firings were pending when the loop cleared; one update came of them
C2_Witness ==
    /\ loopPc = "incr"
    /\ hist.cleared = 2
    /\ hist.batch = 0
    /\ hist.dynamic = hist.groups
    /\ update_event = 0

\* C3: no duplicate delivery. Every dynamic update follows a signal made after
\* the loop's previous clear (after its start for the first); so the updates
\* applied never exceed the signals that found no signal pending, which are
\* some of the signals emitted; while no tick was signalled the loop is still
\* waiting, or not yet there, with at most the baseline applied.
C3_NoDuplicateDelivery ==
    /\ (loopPc \in {"select", "apply", "clear"} => hist.batch >= 1)
    /\ (loopPc = "incr" => hist.cleared >= 1)
    /\ updates <= hist.groups
    /\ hist.dynamic <= hist.groups
    /\ (hist.groups = 0 => /\ loopPc \in {"new", "run", "enter", "spawn", "baseline", "wait"}
                           /\ update_event = 0
                           /\ hist.dynamic = 0
                           /\ updates = 0)

\* no tick was signalled for as long as the clock ran: the loop still waits
\* with the baseline applied
C3_Witness ==
    /\ loopPc = "wait"
    /\ hist.groups = 0
    /\ hist.baseline = 1
    /\ now = MaxTime

\* C4 (as claimed): an iteration of the trigger that finds sleepFor <= 0
\* signals a tick in that iteration.
C4_LateBranchSignals ==
    [][trigPc = "late" /\ trigPc' = "idle" => update_event' = 1]_vars

\* C6: baseline ordering. The first Configurator call is the baseline with the
\* static defaults; it is made exactly once, before the loop waits for or
\* consumes any tick, also when the flag is already set at that moment.
C6_BaselineFirst ==
    /\ (Calls >= 1 => /\ hist.first.kind = "baseline"
                      /\ hist.first.delay = 100
                      /\ hist.first.loss = 0)
    /\ hist.baseline <= 1
    /\ (loopPc \in Loop \cup {"done", "crashed"} => hist.baseline = 1)
    /\ (loopPc \in {"new", "run", "enter", "spawn", "baseline"} => Calls = 0)

\* the baseline was applied while the tick flag was already set
C6_Witness ==
    /\ hist.baseline = 1
    /\ hist.first.kind = "baseline"
    /\ hist.last.kind = "baseline"
    /\ hist.last.flag = 1
    /\ loopPc = "wait"

\* C7 (as claimed): after a Configurator call that resolves the link, the
\* link's delay, bandwidth and loss are the three values passed to the call.
LinkEnds == {LinkOf(dev)[1], LinkOf(dev)[2]}

C7_AppliesAllFields ==
    (Resolved /\ Calls >= 1) =>
        \A i \in LinkEnds : /\ intf[i].delay = hist.last.delay
                             /\ intf[i].bw = hist.last.bw
                             /\ intf[i].loss = hist.last.loss

\* C8: unresolved link. When no interface of the host has the configured name,
\* no Configurator call changes any link and none fails: the loop goes on,
\* clears the tick of every update, counts every call, and is TERMINAL only
\* after max_updates of them.
C8_UnresolvedNoOp ==
    ~Resolved =>
        /\ (loopPc # "new" => intf = BuiltIntfs)
        /\ (loopPc = "crashed" => latency = <<>>)
        /\ hist.dynamic = updates + (IF loopPc \in {"clear", "incr"} THEN 1 ELSE 0)
        /\ (loopPc = "incr" => update_event = 0 \/ hist.batch >= 1)
        /\ (loopPc = "done" => /\ updates = max_updates
                               /\ hist.groups >= max_updates)

\* TERMINAL with an unresolved link: max_updates calls, no link touched
C8_Witness ==
    /\ ~Resolved
    /\ loopPc = "done"
    /\ hist.dynamic = max_updates
    /\ intf = BuiltIntfs

\* C9 (as claimed): the load never succeeds with an empty trace, so the loop is
\* never started with one and the selector is never called on one.
C9_EmptyTraceFatal ==
    /\ (mainPc \in {"start", "cli"} => latency # <<>>)
    /\ (loopPc # "new" => latency # <<>>)
    /\ loopPc # "crashed"

\* C10: a malformed row is fatal. A file with a row after the header that has
\* fewer than three fields or a non-numeric field[1] or field[2] never loads,
\* whatever rows surround it: the script ends while constructing the thread,
\* no trace is kept, the loop never runs, the trigger is never scheduled and
\* no tick is signalled.
HasMalformedRow(file) == \E i \in 2..Len(file) : Malformed(file[i])

C10_MalformedRowFatal ==
    (argv.latency /\ HasMalformedRow(argv.file)) =>
        /\ ~load_latency_trace(argv.file).ok
        /\ mainPc \in {"parse", "build", "construct", "crashed"}
        /\ latency = <<>>
        /\ loopPc = "new"
        /\ trigPc = "new"
        /\ queue = {}
        /\ update_event = 0
        /\ Calls = 0
        /\ hist.groups = 0

\* the script ended on a file whose malformed row stands between two valid rows
C10_Witness ==
    /\ mainPc = "crashed"
    /\ Len(argv.file) = 4
    /\ ~Malformed(argv.file[2])
    /\ Malformed(argv.file[3])
    /\ ~Malformed(argv.file[4])

\* C5: nearest-sample selection. For a non-empty trace and an elapsed time e
\* the selector returns the value of the key nearest to e, the first such key
\* in insertion order when several are equally near, halved and truncated
\* toward zero; for 0.0: 100, 1.0: 300, 2.0: 50 and e = 0.9 it returns 150.
Dist(i) == Abs(latency[i][1] - (now - start_time))
IsHalfTruncated(d, v) == Abs(2 * d) <= Abs(v) /\ Abs(v - 2 * d) <= 1

C5_NearestSample ==
    /\ (latency # <<>> => loopPc # "crashed")
    /\ (loopPc = "apply" =>
           \E i \in 1..Len(latency) :
              /\ \A j \in 1..Len(latency) : Dist(i) <= Dist(j)
              /\ \A j \in 1..(i - 1) : Dist(i) < Dist(j)
              /\ IsHalfTruncated(delay, latency[i][2]))
    /\ (loopPc = "apply" /\ latency = ScenarioTenths /\ now - start_time = 9
           => delay = 150)

\* a tie between two keys, the later-inserted one being the smaller, and an
\* odd negative sample: the first inserted key wins and -7 gives -3
C5_Witness ==
    /\ loopPc = "apply"
    /\ Len(latency) >= 2
    /\ latency[1][1] > latency[2][1]
    /\ Dist(1) = Dist(2)
    /\ latency[1][2] = 0 - 7
    /\ delay = 0 - 3

\* C11: header skip. The load drops the first line whatever it holds and never
\* reads it: the trace has exactly the keys of lines 2..n, each with the value
\* of its last such line, so the first line's values are a sample only if a
\* later row repeats them, and the first line never makes the load fail.
RowKey(r) == r[2].val
RowVal(r) == r[3].val

C11_HeaderSkipped ==
    LET f == argv.file IN
    /\ (mainPc = "start" =>
          /\ \A i \in 1..Len(latency) :
                \E j \in 2..Len(f) :
                   /\ RowKey(f[j]) = latency[i][1]
                   /\ RowVal(f[j]) = latency[i][2]
                   /\ \A j2 \in (j + 1)..Len(f) : RowKey(f[j2]) # latency[i][1]
          /\ \A j \in 2..Len(f) : \E i \in 1..Len(latency) : latency[i][1] = RowKey(f[j])
          /\ \A i, i2 \in 1..Len(latency) : latency[i][1] = latency[i2][1] => i = i2)
    /\ (mainPc = "crashed" => HasMalformedRow(f))

\* a numeric first line was dropped: its key 3 and value 900 are not in the
\* trace loaded from the rows behind it
C11_Witness ==
    /\ mainPc = "start"
    /\ argv.file[1] = NumHeader
    /\ Len(latency) >= 2
    /\ \A i \in 1..Len(latency) : latency[i][1] # 3 /\ latency[i][2] # 900

C13_NoDrift ==
    /\ [](trigPc \in {"set", "reenter"} =>
             /\ cb.next_time = cb.base + latency_update_interval
             /\ cb.sleep_time > 0
             /\ cb.sleep_time <= latency_update_interval)
    /\ [](\A ev \in queue : ev.time >= ev.base)
    /\ [][trigPc = "reenter" /\ trigPc' = "idle" =>
             queue' = {[time |-> now + cb.sleep_time,
                        base |-> cb.base + latency_update_interval]}]_vars

\* a later tick of an on-time chain, signalled by a callback that was called
\* after its base
C13_Witness ==
    /\ trigPc = "reenter"
    /\ hist.groups >= 2
    /\ cb.base > start_time + 3 * latency_update_interval
    /\ cb.sleep_time < latency_update_interval

\* C14: the trigger is not bounded by max_updates. From the moment run() has
\* entered the first event there is exactly one trigger callback, pending in
\* the queue or running; a callback that returns, in either branch, leaves
\* exactly one successor; and once the loop is done it stays done, applies
\* nothing more, and a flag that is set is never cleared again.
C14_TriggerUnbounded ==
    /\ [](loopPc \notin {"new", "run", "enter"} =>
             \/ trigPc \in {"new", "idle"} /\ Cardinality(queue) = 1
             \/ trigPc \in {"set", "reenter", "late"} /\ queue = {})
    /\ [][(trigPc = "reenter" \/ trigPc = "late") /\ trigPc' = "idle" =>
             (Cardinality(queue') = 1)]_vars
    /\ [][loopPc = "done" =>
             /\ loopPc' = "done"
             /\ updates' = updates
             /\ intf' = intf
             /\ (EventIsSet(update_event) => EventIsSet(update_event'))]_vars

\* the loop is done after max_updates updates, the flag is set again and the
\* callback that set it is about to enter its successor
C14_Witness ==
    /\ loopPc = "done"
    /\ updates = max_updates
    /\ EventIsSet(update_event)
    /\ hist.batch = 1
    /\ trigPc = "reenter"

\* C15: symmetric application. After every completed Configurator call on a
\* resolved link, the two interfaces of the link carry the same delay and the
\* same loss, and these are the delay and the loss passed to that call.
C15_Symmetric ==
    (Resolved /\ Calls >= 1) =>
        LET a == LinkOf(dev)[1]
            b == LinkOf(dev)[2]
        IN /\ intf[a].delay = intf[b].delay
           /\ intf[a].loss = intf[b].loss
           /\ intf[a].delay = hist.last.delay
           /\ intf[a].loss = hist.last.loss

\* a dynamic call has put a delay other than the baseline's on both interfaces
C15_Witness ==
    /\ Resolved
    /\ hist.last.kind = "dynamic"
    /\ hist.last.delay = 150
    /\ intf[LinkOf(dev)[1]].delay = 150
    /\ intf[LinkOf(dev)[2]].delay = 150

\* C16: idempotence of the Configurator. From every link state, a call with
\* the parameters of the call just before it leaves every interface as that
\* call left it: nothing adds up.
C16_Idempotent ==
    [][(/\ hist.dynamic >= 1
        /\ hist'.dynamic = hist.dynamic + 1
        /\ hist'.last.delay = hist.last.delay
        /\ hist'.last.bw = hist.last.bw
        /\ hist'.last.loss = hist.last.loss) => intf' = intf]_vars

\* two calls in a row with the same non-default parameters on a resolved
\* link whose interfaces were shaped differently before
C16_Witness ==
    /\ Resolved
    /\ hist.dynamic = 2
    /\ hist.first.delay = 50 /\ hist.last.delay = 50
    /\ hist.first.loss = 5 /\ hist.last.loss = 5
    /\ hist.first.bw = hist.last.bw
    /\ intf["router-eth1"] = Shape(0 - 1, 50, 5)
    /\ intf["pop-eth0"] = Shape(0 - 1, 50, 5)

\* C17: missing flag. Without --latency (absent or empty) the script goes from
\* parsing to exit(1) and nowhere else: no host or link is ever created, no
\* trace is loaded, and neither the thread nor the trigger is started.
C17_MissingFlagExits ==
    /\ [](~argv.latency =>
             /\ mainPc \in {"parse", "exit1"}
             /\ \A i \in Intfs : intf[i] = Shape(0 - 1, 0 - 1, 0 - 1)
             /\ latency = <<>>
             /\ start_time = 0 - 1
             /\ loopPc = "new"
             /\ trigPc = "new"
             /\ queue = {}
             /\ Calls = 0)
    /\ [](mainPc = "exit1" => ~argv.latency)
    /\ [][mainPc = "exit1" => mainPc' = "exit1"]_vars

\* the script has exited with code 1 and nothing was built
C17_Witness ==
    /\ ~argv.latency
    /\ mainPc = "exit1"
    /\ \A i \in Intfs : intf[i].delay = 0 - 1

\* C18: the trace is read-only after construction. Only the constructor
\* assigns it; no step of the loop (the selector's lookup included), of the
\* trigger or of the clock changes a key or a value, and in every state after
\* the load the trace is the one load_latency_trace returned for the file.
C18_TraceReadOnly ==
    /\ [](mainPc \in {"start", "cli"} =>
             /\ load_latency_trace(argv.file).ok
             /\ latency = load_latency_trace(argv.file).val)
    /\ [](mainPc \notin {"start", "cli"} => latency = <<>>)
    /\ [][mainPc # "construct" => latency' = latency]_vars

\* every update was selected from the trace and the trace is still the file's
C18_Witness ==
    /\ loopPc = "done"
    /\ hist.dynamic = max_updates
    /\ trigPc = "reenter"
    /\ latency = <<<<0, 100>>, <<2, 300>>, <<4, 50>>>>

\* C19 (as claimed): the first callback never signals, and the first tick is
\* signalled by the second callback: the second callback takes the on-time
\* branch.
C19_SecondCallbackSignals ==
    /\ (hist.cbs = 1 => trigPc \in {"late", "idle"} /\ hist.groups = 0)
    /\ (hist.cbs = 2 /\ trigPc # "idle" => trigPc \in {"set", "reenter"})

\* C19 (amended): the first callback never signals: it is called with base
\* start_time at start_time + step or later, takes the late branch, and that
\* branch only enters one event due at once with the clock as its base and
\* leaves the flag alone. No tick is signalled before the second callback. A
\* callback signals exactly when it is called strictly before its base plus
\* one step, so the first tick comes from the second callback if that one is
\* called less than one step after the first returned, and from a later one
\* otherwise.
C19_FirstCallbackLate ==
    /\ [](hist.cbs <= 1 =>
             /\ hist.groups = 0
             /\ ~EventIsSet(update_event)
             /\ trigPc \in {"new", "idle", "late"})
    /\ [](hist.cbs = 1 /\ trigPc = "late" =>
             /\ cb.base = start_time
             /\ cb.next_time = start_time + latency_update_interval
             /\ cb.sleep_time <= 0)
    /\ [][trigPc = "idle" /\ trigPc' # "idle" =>
             /\ (trigPc' = "set") = (now < cb'.base + latency_update_interval)
             /\ (trigPc' = "late") = (now >= cb'.base + latency_update_interval)]_vars
    /\ [][trigPc = "late" /\ trigPc' = "idle" =>
             /\ queue' = {[time |-> now, base |-> now]}
             /\ update_event' = update_event]_vars
    /\ [][hist'.groups > hist.groups => trigPc = "set" /\ cb.sleep_time > 0]_vars

\* the second callback was late as well, and the first tick is being
\* signalled by a later one
C19_Witness ==
    /\ hist.cbs = 3
    /\ hist.groups = 0
    /\ trigPc = "set"

\* C20: applied delay. Once the links are built, the delay on the router-pop
\* link is 100 or a value of the loaded trace halved and truncated toward
\* zero, and its loss is 0. Every dynamic update waits for the flag, then
\* selects for the elapsed time now - start_time read at that moment, then
\* applies exactly the selected delay. start_time is set once, before the
\* baseline call, and never changes.
C20_AppliedDelay ==
    /\ [](mainPc \in {"construct", "start", "cli", "crashed"} =>
             \A i \in {"router-eth1", "pop-eth0"} :
                /\ intf[i].loss = 0
                /\ \/ intf[i].delay = DefaultDelay
                   \/ \E k \in 1..Len(latency) :
                         IsHalfTruncated(intf[i].delay, latency[k][2]))
    /\ [](Calls >= 1 => start_time >= 0)
    /\ [][start_time >= 0 => start_time' = start_time]_vars
    /\ [][loopPc = "wait" /\ loopPc' = "select" => EventIsSet(update_event)]_vars
    /\ [][loopPc = "select" /\ loopPc' = "apply" =>
             \E i \in 1..Len(latency) :
                /\ \A j \in 1..Len(latency) : Dist(i) <= Dist(j)
                /\ \A j \in 1..(i - 1) : Dist(i) < Dist(j)
                /\ IsHalfTruncated(delay', latency[i][2])]_vars
    /\ [][loopPc = "apply" /\ loopPc' = "clear" =>
             /\ hist'.last.kind = "dynamic"
             /\ hist'.last.delay = delay
             /\ hist'.last.loss = 0
             /\ hist'.dynamic = updates + 1
             /\ (Resolved => /\ intf'["router-eth1"].delay = delay
                             /\ intf'["pop-eth0"].delay = delay)]_vars

\* the last update found the last sample of the trace nearest and put its
\* half on the link
C20_Witness ==
    /\ Resolved
    /\ loopPc = "done"
    /\ hist.dynamic = max_updates
    /\ hist.last.delay = 25
    /\ intf["router-eth1"] = Shape(0 - 1, 25, 0)
    /\ intf["pop-eth0"] = Shape(0 - 1, 25, 0)

====
